---- MODULE Spec2Model ----
(***************************************************************************)
(* The query path of the katalyst-assistant backend: the two query         *)
(* endpoints of backend/app/main.py, the role lookup and template table of *)
(* services/prompt_engine.py, and the LLM gateway (EnhancedLLMWrapper) of  *)
(* services/llm_service.py with its retry driver; the composition of the  *)
(* prompt (generate_prompt) and the chat store of                          *)
(* services/chat_history_service.py over the tables of models/database.py. *)
(*                                                                         *)
(* Spec is one request to either endpoint; QuerySpec is one authenticated  *)
(* request with every query text and session_id; HistorySpec is one       *)
(* authenticated request on a store that already holds a long              *)
(* conversation; StoreSpec is a sequence of service calls of two users on  *)
(* one store; PromptSpec is one call of generate_prompt; GatewaySpec is    *)
(* one gateway call under a config of any attempt budget; ConcurrentSpec   *)
(* is the interleaving of several requests, followed by the objects they   *)
(* construct and use.  The user lookup of process_query is modelled by its *)
(* result, an id or None.                                                  *)
(*                                                                         *)
(* Text that the code inspects character by character (model names, role   *)
(* strings, the text of Gemini parts) is a sequence of one-character       *)
(* strings; text the code only carries around is a TLA+ string.  An        *)
(* optional value (Python None or a value) is a sequence of length 0 or 1. *)
(* Text the code splits into words or composes (queries, contents, the     *)
(* prompt) is a sequence of tokens.                                        *)
(***************************************************************************)
EXTENDS Integers, Sequences, FiniteSets, TLC

None == <<>>
Some(x) == <<x>>

(***************************************************************************)
(* Bounds of the model.                                                    *)
(***************************************************************************)
\* the longest parts list of a Gemini candidate the provider sends
MaxParts == 2

(***************************************************************************)
(* Character strings.                                                      *)
(***************************************************************************)
LowerChars == <<"a","b","c","d","e","f","g","h","i","j","k","l","m","n","o","p","q","r","s","t","u","v","w","x","y","z">>
UpperChars == <<"A","B","C","D","E","F","G","H","I","J","K","L","M","N","O","P","Q","R","S","T","U","V","W","X","Y","Z">>

\* str.upper() on one character: a lower-case letter maps to its capital,
\* every other character is unchanged
UpperChar(c) ==
    IF \E i \in 1..Len(LowerChars) : LowerChars[i] = c
    THEN UpperChars[CHOOSE i \in 1..Len(LowerChars) : LowerChars[i] = c]
    ELSE c

\* str.upper()
Upper(s) == [i \in 1..Len(s) |-> UpperChar(s[i])]

\* Python's `sub in s` on strings: sub occurs in s as a contiguous run
Contains(s, sub) ==
    \E i \in 1..(Len(s) - Len(sub) + 1) : SubSeq(s, i, i + Len(sub) - 1) = sub

\* str.startswith
StartsWith(s, prefix) ==
    /\ Len(prefix) <= Len(s)
    /\ SubSeq(s, 1, Len(prefix)) = prefix

(***************************************************************************)
(* models/enums.py: UserRole.  Each member has a NAME (looked up by        *)
(* UserRole[...]) and a value.                                             *)
(***************************************************************************)
UserRole ==
    { [name |-> <<"F","U","N","C","T","I","O","N","A","L">>, value |-> "functional"],
      [name |-> <<"T","E","C","H","N","I","C","A","L">>, value |-> "technical"],
      [name |-> <<"A","D","M","I","N","I","S","T","R","A","T","O","R">>, value |-> "administrator"],
      [name |-> <<"K","E","Y","_","U","S","E","R">>, value |-> "key_user"],
      [name |-> <<"E","N","D","_","U","S","E","R">>, value |-> "end_user"],
      [name |-> <<"P","R","O","J","E","C","T","_","M","A","N","A","G","E","R">>, value |-> "project_manager"],
      [name |-> <<"T","E","S","T","E","R">>, value |-> "tester"] }

\* UserRole[name]: the member of that name, or KeyError (None here)
UserRoleGetItem(name) ==
    IF \E m \in UserRole : m.name = name
    THEN Some((CHOOSE m \in UserRole : m.name = name).value)
    ELSE None

(***************************************************************************)
(* services/prompt_engine.py: the template table built by                  *)
(* PromptEngine.__init__, keyed by role.  system_prompt is abridged to its *)
(* first sentence; the section lists are the source's.                     *)
(***************************************************************************)
templates ==
    [ technical |->
        [system_prompt |-> "You are an IFS ERP technical expert.",
         sections |-> <<"Technical Overview", "Implementation Details",
                        "Code Examples", "Best Practices", "Considerations">>],
      functional |->
        [system_prompt |-> "You are an IFS ERP functional consultant.",
         sections |-> <<"Business Context", "Process Overview",
                        "Impact Analysis", "Recommendations">>],
      administrator |->
        [system_prompt |-> "You are an IFS ERP system administrator.",
         sections |-> <<"Administrative Overview", "Configuration Steps",
                        "Security Considerations", "Maintenance Tasks",
                        "Troubleshooting">>],
      key_user |->
        [system_prompt |-> "You are an IFS ERP key user expert.",
         sections |-> <<"Process Summary", "Step-by-Step Guide",
                        "Best Practices", "Common Issues", "Training Tips">>],
      end_user |->
        [system_prompt |-> "You are an IFS ERP End User specialist.",
         sections |-> <<"Simple Overview", "Quick Steps",
                        "Tips and Tricks", "Common Questions">>],
      project_manager |->
        [system_prompt |-> "You are an IFS ERP project management expert.",
         sections |-> <<"Project Overview", "Implementation Strategy",
                        "Resource Requirements", "Risk Analysis",
                        "Timeline Considerations">>],
      tester |->
        [system_prompt |-> "You are an IFS ERP testing specialist.",
         sections |-> <<"Testing Approach", "Test Scenarios",
                        "Validation Steps", "Quality Checks",
                        "Common Issues">>] ]

\* PromptEngine(): the object __init__ builds
PromptEngine == [templates |-> templates]

\* main.py: prompt_engine = PromptEngine(), constructed once when the module
\* is imported and used by every request
VARIABLE prompt_engine

\* a lookup that misses the last role of the enumeration
TemplatesGetUnlessTester(role) ==
    IF role \in DOMAIN prompt_engine.templates \ {"tester"} THEN Some(role) ELSE None
\* self.templates.get(role): the role's template, or None
TemplatesGet(role) ==
    IF role \in DOMAIN prompt_engine.templates THEN Some(role) ELSE None

(***************************************************************************)
(* models/schemas.py: LLMConfig, and the model names the process may be    *)
(* configured with (LLM_MODEL).                                            *)
(***************************************************************************)
S_gemini == <<"g","e","m","i","n","i">>

ModelNames ==
    { <<"g","e","m","i","n","i","-","2",".","0","-","f","l","a","s","h","-","l","i","t","e">>,
      <<"m","o","d","e","l","s","/","g","e","m","i","n","i","-","p","r","o">>,
      <<"g","p","t","-","4">>,
      <<"G","e","m","i","n","i","-","P","r","o">>,
      <<"g","e","m","i","n","-","i">> }

\* LLMConfig(model_name=...): the fields the gateway reads
LLMConfig(model_name) ==
    [model_name |-> model_name, max_retries |-> 3, timeout_seconds |-> 30]

(***************************************************************************)
(* What the provider's endpoint may answer to one POST of the gateway.     *)
(***************************************************************************)
\* a part of a Gemini candidate: with a text, or without one (inline data)
PartKinds ==
    { [hasText |-> TRUE, text |-> <<"a">>],
      [hasText |-> TRUE, text |-> <<"b">>],
      [hasText |-> FALSE, text |-> <<>>] }

PartLists == UNION { [1..n -> PartKinds] : n \in 0..MaxParts }

\* candidates[0]: with content.parts, or without a content key
FirstCandidates ==
    { [hasContent |-> TRUE, parts |-> p] : p \in PartLists }
      \cup { [hasContent |-> FALSE, parts |-> <<>>] }

\* a further candidate, after the first
OtherCandidate ==
    [hasContent |-> TRUE, parts |-> << [hasText |-> TRUE, text |-> <<"z">>] >>]

\* the JSON bodies of a Gemini 200 response
GeminiBodies ==
    { [hasCandidates |-> FALSE, candidates |-> <<>>],
      [hasCandidates |-> TRUE, candidates |-> <<>>] }
      \cup { [hasCandidates |-> TRUE, candidates |-> <<c>>] : c \in FirstCandidates }
      \cup { [hasCandidates |-> TRUE, candidates |-> <<c, OtherCandidate>>] :
                c \in FirstCandidates }

\* one element of a "choices" list
Choice(messageKind, contentKind, content) ==
    [messageKind |-> messageKind, contentKind |-> contentKind, content |-> content]

\* the value under "error": a dict, with or without a message, or a string
ErrorValue(kind, message) == [kind |-> kind, message |-> message]

\* a response dict: choices (absent, not a list, or a list) and error
ResponseDict(choicesKind, choices, error) ==
    [choicesKind |-> choicesKind, choices |-> choices, error |-> error]

\* the JSON bodies of an OpenAI 200 response
OpenAIBodies ==
    { ResponseDict("list", << Choice("dict", "str", <<"o","k">>) >>, None),
      ResponseDict("list", << Choice("dict", "str", <<"a">>),
                              Choice("dict", "str", <<"b">>) >>, None),
      ResponseDict("list", <<>>, None),
      ResponseDict("absent", <<>>, Some(ErrorValue("dict", Some("quota exceeded")))),
      ResponseDict("absent", <<>>, Some(ErrorValue("dict", None))),
      ResponseDict("absent", <<>>, Some(ErrorValue("str", None))),
      ResponseDict("absent", <<>>, None),
      ResponseDict("notlist", <<>>, None),
      ResponseDict("list", << Choice("notdict", "absent", <<>>) >>, None),
      ResponseDict("list", << Choice("dict", "notstr", <<>>) >>, None),
      ResponseDict("list", << Choice("dict", "absent", <<>>) >>, None) }

Bodies(protocol) == IF protocol = "gemini" THEN GeminiBodies ELSE OpenAIBodies

\* the outcome of self.session.post(...) for one attempt: the transport raises
\* aiohttp.ClientError, the attempt times out, or a response arrives
Reply(kind, status, text, body) ==
    [kind |-> kind, status |-> status, text |-> text, body |-> body]

ProviderReplies(protocol) ==
    { Reply("client_error", 0, "Cannot connect to host", None),
      Reply("timeout", 0, "", None),
      Reply("response", 400, "bad request", None),
      Reply("response", 503, "overloaded", None) }
      \cup { Reply("response", 200, "", Some(b)) : b \in Bodies(protocol) }

\* how the log of attempts names a reply
ReplyClass(reply) ==
    IF reply.kind # "response" THEN reply.kind
    ELSE IF reply.status = 200 THEN "200"
    ELSE "non200"

(***************************************************************************)
(* Results of a Python call: a returned value or a raised exception.       *)
(***************************************************************************)
Exc(cls, prefix, text) == [cls |-> cls, prefix |-> prefix, text |-> text]

Return(v) == [ok |-> TRUE, value |-> Some(v), error |-> None]
Raise(e) == [ok |-> FALSE, value |-> None, error |-> Some(e)]

\* what session.post raises before any response is read
TransportRaise(reply) ==
    IF reply.kind = "client_error"
    THEN Exc("ClientError", "", reply.text)
    ELSE Exc("TimeoutError", "", "")

(***************************************************************************)
(* services/llm_service.py: EnhancedLLMWrapper                             *)
(***************************************************************************)
\* the loop over candidates[0]['content']['parts']: content += part['text']
\* for every part that has a text, in order
RECURSIVE GeminiContent(_)
RECURSIVE GeminiContentReversed(_)
GeminiContentReversed(parts) ==
    IF parts = <<>> THEN <<>>
    ELSE GeminiContentReversed(Tail(parts))
           \o (IF Head(parts).hasText THEN Head(parts).text ELSE <<>>)
GeminiContent(parts) ==
    IF parts = <<>> THEN <<>>
    ELSE (IF Head(parts).hasText THEN Head(parts).text ELSE <<>>)
           \o GeminiContent(Tail(parts))

\* the transformed_response of _make_gemini_api_call
TransformedResponseNoChoice(content) ==
    ResponseDict("list", <<>>, None)
TransformedResponse(content) ==
    ResponseDict("list", << Choice("dict", "str", content) >>, None)

\* _make_gemini_api_call, from the outcome of its POST
MakeGeminiApiCall(reply) ==
    IF reply.kind # "response" THEN Raise(TransportRaise(reply))
    ELSE IF reply.status # 200
    THEN Raise(Exc("Exception", "Gemini API call failed: ", reply.text))
    ELSE LET response_data == reply.body[1] IN
         IF response_data.hasCandidates /\ Len(response_data.candidates) > 0
         THEN IF response_data.candidates[1].hasContent
              THEN Return(TransformedResponse(
                       GeminiContent(response_data.candidates[1].parts)))
              ELSE Raise(Exc("KeyError", "", "content"))
         ELSE Raise(Exc("Exception",
                        "Gemini API returned an unexpected response format", ""))

\* _make_openai_api_call, from the outcome of its POST
MakeOpenAIApiCall(reply) ==
    IF reply.kind # "response" THEN Raise(TransportRaise(reply))
    ELSE IF reply.status # 200
    THEN Raise(Exc("Exception", "OpenAI API call failed: ", reply.text))
    ELSE Return(reply.body[1])

\* __aexit__: await self.session.close().  Neither handler enters the wrapper
\* as a context manager or calls close(), so no action of the model uses it.
AExit(s) == IF s = "open" THEN "closed" ELSE s

\* the dispatch of _make_api_call: "gemini" in self.config.model_name
DispatchIgnoringCase(model_name) ==
    IF Contains(Upper(model_name), Upper(S_gemini)) THEN "gemini" ELSE "openai"
Dispatch(model_name) ==
    IF Contains(model_name, S_gemini) THEN "gemini" ELSE "openai"

\* the except clauses of _make_api_call: aiohttp.ClientError is replaced by
\* Exception("Network error: ..."), any other exception is re-raised as it is
ExceptClauses(result) ==
    IF result.ok THEN result
    ELSE IF result.error[1].cls = "ClientError"
    THEN Raise(Exc("Exception", "Network error: ", result.error[1].text))
    ELSE result

\* the body of _make_api_call: one attempt
MakeApiCallBody(config, reply) ==
    ExceptClauses(IF Dispatch(config.model_name) = "gemini"
                  THEN MakeGeminiApiCall(reply)
                  ELSE MakeOpenAIApiCall(reply))

(***************************************************************************)
(* The retry driver that decorates _make_api_call:                         *)
(*   @retry(stop=stop_after_attempt(3),                                    *)
(*          wait=wait_exponential(multiplier=1, min=4, max=10),            *)
(*          reraise=True)                                                  *)
(***************************************************************************)
MaxAttemptNumber == 3
WaitMultiplier == 1
WaitMin == 4
WaitMax == 10

Max(a, b) == IF a >= b THEN a ELSE b
Min(a, b) == IF a <= b THEN a ELSE b

\* stop_after_attempt(3): stop once this many attempts have been made
StopAfterAttemptOffByOne(n) == n > MaxAttemptNumber
StopAfterAttempt(n) == n >= MaxAttemptNumber

\* the driver's default retry condition: the attempt raised an exception
RetryOnlyNetworkErrors(result) ==
    /\ ~result.ok
    /\ result.error[1].prefix = "Network error: "
RetryUnlessFormatError(result) ==
    /\ ~result.ok
    /\ result.error[1].prefix # "Gemini API returned an unexpected response format"
RetryAlways(result) == TRUE
RetryCondition(result) == ~result.ok

\* an exponential wait without the clamp to [min, max]
WaitExponentialUnclamped(n) == WaitMultiplier * 2^(n - 1)
\* wait_exponential(multiplier=1, min=4, max=10) after attempt n
WaitExponential(n) ==
    Max(Max(0, WaitMin), Min(WaitMultiplier * 2^(n - 1), WaitMax))

\* reraise=True: when the driver stops, the last attempt's exception itself
\* is raised (without it, a RetryError wrapping the last attempt)
RetryErrorWrapped(result) ==
    Raise(Exc("RetryError", "", result.error[1].prefix))
Reraise(result) == result

\* what the driver does with the result of attempt n: hand it to the caller
\* as it is, stop retrying and raise, or sleep and make the next attempt
AfterAttemptRetryingSuccess(result, n) ==
    IF ~StopAfterAttempt(n) THEN "sleep"
    ELSE IF RetryCondition(result) THEN "stop"
    ELSE "deliver"
AfterAttempt(result, n) ==
    IF ~RetryCondition(result) THEN "deliver"
    ELSE IF StopAfterAttempt(n) THEN "stop"
    ELSE "sleep"

(***************************************************************************)
(* Texts the code inspects word by word or composes: a text is a sequence  *)
(* of tokens, and the concatenation of two texts is \o.                    *)
(***************************************************************************)
IsSpace(t) == t \in {" ", "  ", "\n", "\t"}

\* str.split(): the maximal runs of non-whitespace tokens, in order
RECURSIVE Split(_)
Split(text) ==
    IF text = <<>> THEN <<>>
    ELSE IF IsSpace(Head(text)) THEN Split(Tail(text))
    ELSE LET rest == Split(Tail(text)) IN
         IF Len(text) > 1 /\ ~IsSpace(text[2])
         THEN <<(<<Head(text)>> \o Head(rest))>> \o Tail(rest)
         ELSE <<(<<Head(text)>>)>> \o rest

\* sep.join(parts)
RECURSIVE Join(_, _)
Join(parts, sep) ==
    IF parts = <<>> THEN <<>>
    ELSE IF Len(parts) = 1 THEN parts[1]
    ELSE parts[1] \o sep \o Join(Tail(parts), sep)

(***************************************************************************)
(* models/database.py and services/chat_history_service.py: the store      *)
(***************************************************************************)
\* the tables of a database with no row; ids come from per-table sequences
\* and `now` is what datetime.utcnow() returns next
EmptyStore ==
    [sessions |-> {}, messages |-> {}, responses |-> {},
     next_session_id |-> 1, next_message_id |-> 1, next_response_id |-> 1,
     now |-> 1]

TitleWords == 5

\* save_message_and_response: the title of the session it creates
SessionTitle(content) ==
    LET words == Split(content) IN
    IF Len(words) > TitleWords
    THEN Join(SubSeq(words, 1, TitleWords), <<" ">>) \o <<"...">>
    ELSE content

\* create_session: db.add(ChatSession(user_id, title)), commit, refresh
CreateSession(store, user_id, title) ==
    LET db_session == [id |-> store.next_session_id, user_id |-> user_id,
                       title |-> title, created_at |-> store.now,
                       updated_at |-> store.now]
    IN [db |-> [store EXCEPT !.sessions = @ \cup {db_session},
                             !.next_session_id = @ + 1,
                             !.now = @ + 1],
        db_session |-> db_session]

\* a lookup by id alone
GetSessionByIdOfAnyUser(store, session_id, user_id) ==
    LET found == { s \in store.sessions : s.id = session_id }
    IN IF found = {} THEN None ELSE Some(CHOOSE s \in found : TRUE)
\* get_session_by_id: the session with that id AND that user_id, or None
GetSessionById(store, session_id, user_id) ==
    LET found == { s \in store.sessions : s.id = session_id /\ s.user_id = user_id }
    IN IF found = {} THEN None ELSE Some(CHOOSE s \in found : TRUE)

\* the rows db.delete(db_session) removes through the ORM cascades
\* ChatSession.messages and ChatMessage.response_data (all, delete-orphan)
CascadeMessages(store, session_id) ==
    { m \in store.messages : m.session_id = session_id }
CascadeResponsesNone(store, session_id) == {}
CascadeResponses(store, session_id) ==
    { r \in store.responses :
        \E m \in CascadeMessages(store, session_id) : r.message_id = m.id }

\* delete_session: True and the rows gone when the user owns the session,
\* else False
DeleteSession(store, session_id, user_id) ==
    LET db_session == GetSessionById(store, session_id, user_id) IN
    IF db_session = None
    THEN [db |-> store, result |-> FALSE]
    ELSE [db |-> [store EXCEPT
                    !.sessions = @ \ {db_session[1]},
                    !.messages = @ \ CascadeMessages(store, session_id),
                    !.responses = @ \ CascadeResponses(store, session_id)],
          result |-> TRUE]

\* update_session: the user's session of that id gets the title and
\* updated_at = utcnow() and is returned; None when the user has no such
\* session
UpdateSession(store, session_id, user_id, title) ==
    LET db_session == GetSessionById(store, session_id, user_id) IN
    IF db_session = None
    THEN [db |-> store, result |-> None]
    ELSE LET updated == [db_session[1] EXCEPT !.title = title,
                                              !.updated_at = store.now]
         IN [db |-> [store EXCEPT
                       !.sessions = (@ \ {db_session[1]}) \cup {updated},
                       !.now = @ + 1],
             result |-> Some(updated)]

\* the foreign key chat_messages.session_id -> chat_sessions.id
SessionExists(store, session_id) == \E s \in store.sessions : s.id = session_id

\* save_message_and_response up to its first branch: a session is created
\* when `not session_id`, else the user's session of that id, when there is
\* one, gets updated_at = utcnow() and a commit
SaveSession(store, user_id, content, session_id) ==
    IF session_id = None
    THEN LET created == CreateSession(store, user_id, SessionTitle(content))
         IN [db |-> created.db, session_id |-> created.db_session.id]
    ELSE LET db_session == GetSessionById(store, session_id[1], user_id) IN
         IF db_session = None
         THEN [db |-> store, session_id |-> session_id[1]]
         ELSE [db |-> [store EXCEPT
                         !.sessions = (@ \ {db_session[1]}) \cup
                             {[db_session[1] EXCEPT !.updated_at = store.now]},
                         !.now = @ + 1],
               session_id |-> session_id[1]]

\* db.add(ChatMessage(message_type="query", ...)), commit, refresh: the
\* commit raises IntegrityError when session_id names no session
SaveMessage(store, user_id, session_id, content, role_string) ==
    IF ~SessionExists(store, session_id)
    THEN [ok |-> FALSE, db |-> store, message_id |-> 0]
    ELSE [ok |-> TRUE,
          db |-> [store EXCEPT
                    !.messages = @ \cup
                        {[id |-> store.next_message_id, user_id |-> user_id,
                          session_id |-> session_id, message_type |-> "query",
                          content |-> content, role |-> role_string,
                          created_at |-> store.now]},
                    !.next_message_id = @ + 1,
                    !.now = @ + 1],
          message_id |-> store.next_message_id]

\* db.add(ChatResponse(message_id, content)), db.add(ChatMessage(
\* message_type="response", role="assistant", ...)), commit
SaveResponseWithoutMirror(store, user_id, session_id, message_id, content) ==
    [ok |-> TRUE,
     db |-> [store EXCEPT
               !.responses = @ \cup
                   {[id |-> store.next_response_id, message_id |-> message_id,
                     content |-> content, created_at |-> store.now]},
               !.next_response_id = @ + 1,
               !.now = @ + 1]]
SaveResponse(store, user_id, session_id, message_id, content) ==
    IF \/ ~SessionExists(store, session_id)
       \/ ~\E m \in store.messages : m.id = message_id
    THEN [ok |-> FALSE, db |-> store]
    ELSE [ok |-> TRUE,
          db |-> [store EXCEPT
                    !.responses = @ \cup
                        {[id |-> store.next_response_id, message_id |-> message_id,
                          content |-> content, created_at |-> store.now]},
                    !.messages = @ \cup
                        {[id |-> store.next_message_id, user_id |-> user_id,
                          session_id |-> session_id, message_type |-> "response",
                          content |-> content, role |-> <<"assistant">>,
                          created_at |-> store.now]},
                    !.next_response_id = @ + 1,
                    !.next_message_id = @ + 1,
                    !.now = @ + 1]]

\* save_message_and_response from its first line to its return, with no
\* other request in between
SaveMessageAndResponse(store, user_id, content, role_string, response, session_id) ==
    LET s1 == SaveSession(store, user_id, content, session_id)
        s2 == SaveMessage(s1.db, user_id, s1.session_id, content, role_string)
        s3 == SaveResponse(s2.db, user_id, s1.session_id, s2.message_id, response)
    IN IF ~s2.ok THEN [ok |-> FALSE, db |-> s2.db, session_id |-> s1.session_id]
       ELSE [ok |-> s3.ok, db |-> s3.db, session_id |-> s1.session_id]

\* the rows of a set, ascending by created_at
RECURSIVE OrderByCreatedAt(_)
OrderByCreatedAt(rows) ==
    IF rows = {} THEN <<>>
    ELSE LET first == CHOOSE r \in rows :
                         \A o \in rows : \/ r.created_at < o.created_at
                                         \/ (r.created_at = o.created_at /\ r.id <= o.id)
         IN <<first>> \o OrderByCreatedAt(rows \ {first})

\* stmt.limit(limit): the first `limit` rows, all of them when limit is None
LimitIgnored(rows, limit) == rows
Limit(rows, limit) ==
    IF limit = None \/ Len(rows) <= limit[1] THEN rows ELSE SubSeq(rows, 1, limit[1])

\* get_session_messages: [] unless the user owns the session, else its
\* query-typed messages ascending by created_at, cut by the limit, each with
\* the first response row of its message_id or None
GetSessionMessages(store, session_id, user_id, limit) ==
    IF GetSessionById(store, session_id, user_id) = None THEN <<>>
    ELSE LET db_messages ==
                 Limit(OrderByCreatedAt({ m \in store.messages :
                          m.session_id = session_id /\ m.message_type = "query" }),
                       limit)
             ResponseOf(msg) ==
                 LET found == { r \in store.responses : r.message_id = msg.id } IN
                 IF found = {} THEN None
                 ELSE Some(CHOOSE r \in found : \A o \in found : r.id <= o.id)
         IN [i \in 1..Len(db_messages) |->
                [message |-> db_messages[i], response |-> ResponseOf(db_messages[i])]]

\* the texts of the queries callers send
Queries ==
    { <<"hello">>,
      <<" ", "one", "  ", "two", "\n", "three", " ", "four", " ", "five">>,
      <<"how", " ", "do", " ", "I", " ", "create", " ", "a", " ",
        "purchase", " ", "order">> }

\* the store the requests are made against: two users, each with one
\* session holding one saved turn
InitialStore ==
    LET first == SaveMessageAndResponse(EmptyStore, 1, <<"hello">>,
                     <<"functional">>, <<"a">>, None).db
    IN SaveMessageAndResponse(first, 2, <<"hello">>, <<"tester">>, <<"b">>, None).db

\* the session_id of a request: none, the caller's session, another user's
\* session, the id of no session
SessionIds == {None, Some(1), Some(2), Some(3)}

\* what get_user_id_from_username gives process_query: None, or the id
UserLookups == {None, Some(1)}

HistoryLimit == 10

(***************************************************************************)
(* services/prompt_engine.py: generate_prompt.  A history is None or a     *)
(* list; an item with the fields message and response is a                 *)
(* ChatHistoryItem, one with role and content a SimpleHistoryItem.         *)
(***************************************************************************)
IsChatHistoryItem(item) == "message" \in DOMAIN item
IsSimpleHistoryItem(item) == "role" \in DOMAIN item

\* the lines of one ChatHistoryItem
PersistedTurnAlwaysAnswered(item) ==
    <<"User: ">> \o item.message.content \o <<"\n">>
      \o <<"Assistant: ">> \o <<"\n">>
PersistedTurn(item) ==
    <<"User: ">> \o item.message.content \o <<"\n">>
      \o (IF item.response # None
          THEN <<"Assistant: ">> \o item.response[1].content \o <<"\n">>
          ELSE <<>>)

\* the line of one SimpleHistoryItem
SimpleTurnByFirstLetter(item) ==
    <<(IF item.role \in {"user", "User"} THEN "User" ELSE "Assistant"), ": ">>
      \o item.content \o <<"\n">>
SimpleTurn(item) ==
    <<(IF item.role = "user" THEN "User" ELSE "Assistant"), ": ">>
      \o item.content \o <<"\n">>

\* the lines of the items, in the order of the list
RECURSIVE PersistedTurns(_)
PersistedTurns(items) ==
    IF items = <<>> THEN <<>>
    ELSE PersistedTurn(Head(items)) \o PersistedTurns(Tail(items))

RECURSIVE SimpleTurns(_)
SimpleTurns(items) ==
    IF items = <<>> THEN <<>>
    ELSE SimpleTurn(Head(items)) \o SimpleTurns(Tail(items))

\* history_str: empty when `history` is None or [], else the header, the
\* turns formatted by the type of history[0], and the separator
HistoryStrAlwaysFramed(history) ==
    <<"CONVERSATION HISTORY:\n">> \o <<"\n---\n\n">>
HistoryStr(history) ==
    IF history = None \/ history[1] = <<>> THEN <<>>
    ELSE <<"CONVERSATION HISTORY:\n">>
           \o (IF IsChatHistoryItem(history[1][1]) THEN PersistedTurns(history[1])
               ELSE IF IsSimpleHistoryItem(history[1][1]) THEN SimpleTurns(history[1])
               ELSE <<>>)
           \o <<"\n---\n\n">>

\* ', '.join(template.response_format['sections'])
Sections(role_value) ==
    Join([i \in 1..Len(prompt_engine.templates[role_value].sections) |->
              <<prompt_engine.templates[role_value].sections[i]>>], <<", ">>)

\* prompt_parts, for a role that has a template; the long instruction lines
\* are abridged to their first words
PromptPartsQueryFirst(q, role_value, history) ==
    << <<prompt_engine.templates[role_value].system_prompt>>,
       <<"CURRENT QUERY:\nUser: ">> \o q \o <<"\n">>,
       HistoryStr(history) >>
PromptParts(q, role_value, history) ==
    << <<prompt_engine.templates[role_value].system_prompt>>,
       HistoryStr(history),
       <<"CURRENT QUERY:\nUser: ">> \o q \o <<"\n">>,
       <<"RESPONSE STRUCTURE:">>,
       <<"Please structure your response using the following sections: ">>
           \o Sections(role_value),
       <<"\nFORMATTING:">>,
       <<"- Use standard Markdown for all formatting">>,
       <<"- **ONLY** use Markdown code blocks for actual code snippets">>,
       <<"- Use bullet points (-) or numbered lists (1.) for lists.">>,
       <<"- Use Markdown tables (| Header | ... |) for structured data or statistics.">>,
       <<"- Use bold (**text**) and italics (*text*) for emphasis.">>,
       <<"\nREMEMBER:">>,
       <<"1. Use appropriate terminology for a ", role_value, " user.">>,
       <<"2. Provide practical examples where relevant.">>,
       <<"3. Include any necessary warnings or considerations.">>,
       <<"4. If the user's CURRENT QUERY is very short, conversational or unclear">> >>

\* generate_prompt: "\n".join(prompt_parts)
GeneratePrompt(q, role_value, history) ==
    Join(PromptParts(q, role_value, history), <<"\n">>)

(***************************************************************************)
(* main.py: the query endpoints                                            *)
(***************************************************************************)
\* the role strings a caller sends (QueryRequest.role is any str)
RoleStrings ==
    { <<"f","u","n","c","t","i","o","n","a","l">>,
      <<"T","e","c","h","n","i","c","a","l">>,
      <<"K","E","Y","_","U","S","E","R">>,
      <<"t","e","s","t","e","r">>,
      <<>>,
      <<"a","d","m","i","n">>,
      <<"k","e","y"," ","u","s","e","r">>,
      <<"g","u","e","s","t">> }

\* process_query: UserRole[query_request.role.upper()]
RoleLookupDefaulting(r) ==
    IF UserRoleGetItem(Upper(r)) = None
    THEN Some("functional")
    ELSE UserRoleGetItem(Upper(r))
RoleLookup(r) == UserRoleGetItem(Upper(r))

\* process_public_query:
\*   role_upper = query_request.role.upper() if query_request.role else "FUNCTIONAL"
\*   UserRole[role_upper]
PublicRoleLookup(r) ==
    UserRoleGetItem(IF r # <<>> THEN Upper(r)
                    ELSE <<"F","U","N","C","T","I","O","N","A","L">>)

\* the parse of the gateway's value in both handlers: choices[0].message.content
\* when it is there, else a fallback text
FinalContent(kind, text, detail) == [kind |-> kind, text |-> text, detail |-> detail]

ParseResponse(llm_response_dict) ==
    LET choices == llm_response_dict.choices IN
    IF llm_response_dict.choicesKind = "list" /\ Len(choices) > 0
    THEN IF choices[1].messageKind = "dict" /\ choices[1].contentKind = "str"
         THEN FinalContent("content", choices[1].content, "")
         ELSE FinalContent("default", <<>>,
                           "An error occurred while processing your request.")
    ELSE IF llm_response_dict.error = None
    THEN FinalContent("api_error", <<>>, "Unknown LLM API error")
    ELSE IF llm_response_dict.error[1].kind # "dict"
    THEN FinalContent("AttributeError", <<>>, "'str' object has no attribute 'get'")
    ELSE FinalContent("api_error", <<>>,
                      IF llm_response_dict.error[1].message = None
                      THEN "Unknown LLM API error"
                      ELSE llm_response_dict.error[1].message[1])

\* final_response_content as the text answered and saved
ContentString(final) ==
    IF final.kind = "content" THEN final.text
    ELSE IF final.kind = "default" THEN <<final.detail>>
    ELSE <<"Error from LLM API: ", final.detail>>

VARIABLES
    pc,                     \* where the request's handler is
    endpoint,               \* "auth" (/api/query) or "public" (/api/public/query)
    role,                   \* query_request.role
    guest_mode_enabled,     \* GUEST_MODE_ENABLED of the process
    config,                 \* assistant.config
    session,                \* assistant.session: "none", "open" or "closed"
    template,               \* the template generate_prompt selected
    attempt_number,         \* the driver's attempt counter
    log,                    \* per attempt made: its protocol and whether it returned
    lastReply,              \* what session.post produced in the latest attempt
    outcome,                \* the result of the latest attempt of _make_api_call
    slept,                  \* the waits the driver slept, in order
    callResult,             \* the result of `await assistant._make_api_call(prompt)`
    httpStatus,             \* the status the request is answered with (0: not yet)
    final_response_content, \* the content the handler answers with
    user_id,                \* what get_user_id_from_username returned
    query,                  \* query_request.query
    session_id,             \* query_request.session_id
    chat_history,           \* the history handed to generate_prompt, or None
    prompt,                 \* the prompt generate_prompt returned
    db,                     \* the tables of the database
    saved,                  \* save_message_and_response: its session_id and db_message.id
    response_session_id,    \* response_for_frontend['session_id']
    db_before,              \* the tables when the service call began
    call,                   \* the service call made on the store, and its result
    ncalls,                 \* the service calls made so far
    heap,                   \* the gateways and client sessions constructed so far
    assistant,              \* per concurrent request: its local `assistant`
    request_pc,             \* per concurrent request: where its handler is
    request_attempt,        \* per concurrent request: its driver's attempt counter
    posts                   \* the session.post calls made: by whom, on which session

vars == <<pc, endpoint, role, guest_mode_enabled, prompt_engine, config, session, template,
          attempt_number, log, lastReply, outcome, slept, callResult,
          httpStatus, final_response_content, user_id, query, session_id,
          chat_history, prompt, db, saved, response_session_id, db_before, call, ncalls,
          heap, assistant, request_pc, request_attempt, posts>>

\* the query requests the server handles concurrently
MaxRequests == 2
Requests == 1..MaxRequests

\* a request on arrival, the database holding `store`
InitWith(store) ==
    /\ pc = "idle"
    /\ endpoint = "none"
    /\ role = <<>>
    /\ guest_mode_enabled \in BOOLEAN
    /\ prompt_engine = PromptEngine
    /\ config = None
    /\ session = "none"
    /\ template = None
    /\ attempt_number = 0
    /\ log = <<>>
    /\ lastReply = None
    /\ outcome = None
    /\ slept = <<>>
    /\ callResult = None
    /\ httpStatus = 0
    /\ final_response_content = None
    /\ user_id = None
    /\ query = <<>>
    /\ session_id = None
    /\ chat_history = None
    /\ prompt = None
    /\ db = store
    /\ saved = None
    /\ response_session_id = None
    /\ db_before = store
    /\ call = None
    /\ ncalls = 0
    /\ heap = <<>>
    /\ assistant = [r \in Requests |-> None]
    /\ request_pc = [r \in Requests |-> "idle"]
    /\ request_attempt = [r \in Requests |-> 0]
    /\ posts = {}

Init == InitWith(InitialStore)

\* what belongs to the server process and not to the request followed
concurrentVars == <<heap, assistant, request_pc, request_attempt, posts>>
serverVars == <<guest_mode_enabled, prompt_engine, concurrentVars>>
gatewayVars == <<attempt_number, log, lastReply, outcome, slept, callResult>>
requestVars == <<user_id, query, session_id, chat_history, prompt>>
storeVars == <<db, saved, response_session_id>>
callVars == <<db_before, call, ncalls>>

\* the handler raises HTTPException(status) before any gateway exists
RejectEarly(status) ==
    /\ pc' = "done"
    /\ httpStatus' = status
    /\ UNCHANGED <<config, session, template, final_response_content, prompt>>

\* assistant = EnhancedLLMWrapper(config=LLMConfig(model_name=...)), which
\* opens self.session, then prompt_engine.generate_prompt(role=UserRole[...]);
\* a KeyError of the lookup or the ValueError of generate_prompt is caught by
\* the handler's `except Exception` and answered with status 500
CreateAssistantAndPrompt(model_name, member) ==
    /\ config' = Some(LLMConfig(model_name))
    /\ session' = "open"
    /\ IF member = None \/ TemplatesGet(member[1]) = None
       THEN /\ pc' = "done"
            /\ httpStatus' = 500
            /\ template' = None
            /\ prompt' = None
       ELSE /\ pc' = "prompted"
            /\ httpStatus' = httpStatus
            /\ template' = TemplatesGet(member[1])
            /\ prompt' = Some(GeneratePrompt(query', member[1], chat_history'))
    /\ UNCHANGED final_response_content

\* process_query up to the gateway call: the user lookup, the fetch of the
\* session's history when a session_id is sent, the gateway and the prompt
ProcessQuery(r, model_name, uid, q, sid) ==
    /\ pc = "idle"
    /\ endpoint' = "auth"
    /\ role' = r
    /\ user_id' = uid
    /\ query' = q
    /\ session_id' = sid
    /\ IF uid = None
       THEN /\ RejectEarly(404)
            /\ chat_history' = None
       ELSE /\ chat_history' =
                 IF sid = None THEN None
                 ELSE Some(GetSessionMessages(db, sid[1], uid[1], Some(HistoryLimit)))
            /\ CreateAssistantAndPrompt(model_name, RoleLookup(r))
    /\ UNCHANGED <<serverVars, gatewayVars, storeVars, callVars>>

\* process_public_query up to the gateway call; the history is the one the
\* request carries
ProcessPublicQuery(r, model_name, q, history) ==
    /\ pc = "idle"
    /\ endpoint' = "public"
    /\ role' = r
    /\ query' = q
    /\ chat_history' = history
    /\ IF ~guest_mode_enabled
       THEN RejectEarly(403)
       ELSE CreateAssistantAndPrompt(model_name, PublicRoleLookup(r))
    /\ UNCHANGED <<serverVars, gatewayVars, user_id, session_id, storeVars,
                   callVars>>

\* the driver starts attempt attempt_number + 1 of _make_api_call: the POST
\* of the protocol the dispatch chooses is in flight
BeginAttempt ==
    /\ pc \in {"prompted", "backoff"}
    /\ pc' = "inflight"
    /\ attempt_number' = attempt_number + 1
    /\ log' = Append(log, [protocol |-> Dispatch(config[1].model_name),
                           reply |-> "pending", ok |-> FALSE])
    /\ UNCHANGED <<endpoint, role, serverVars, config, session, template,
                   lastReply, outcome, slept, callResult, httpStatus,
                   final_response_content, requestVars, storeVars, callVars>>

\* the attempt in flight ends: the driver returns its value, sleeps before the
\* next attempt, or stops and raises; an exception out of _make_api_call is
\* caught by the handler's `except Exception` and answered with status 500
EndAttempt(reply) ==
    /\ pc = "inflight"
    /\ LET result == MakeApiCallBody(config[1], reply)
           next == AfterAttempt(result, attempt_number)
       IN /\ lastReply' = Some(reply)
          /\ outcome' = Some(result)
          /\ log' = [log EXCEPT ![Len(log)].reply = ReplyClass(reply),
                                ![Len(log)].ok = result.ok]
          /\ IF next = "deliver"
             THEN /\ pc' = IF result.ok THEN "returned" ELSE "done"
                  /\ callResult' = Some(result)
                  /\ httpStatus' = IF result.ok THEN httpStatus ELSE 500
                  /\ UNCHANGED slept
             ELSE IF next = "stop"
             THEN /\ pc' = "done"
                  /\ callResult' = Some(Reraise(result))
                  /\ httpStatus' = 500
                  /\ UNCHANGED slept
             ELSE /\ pc' = "backoff"
                  /\ slept' = Append(slept, WaitExponential(attempt_number))
                  /\ UNCHANGED <<callResult, httpStatus>>
    /\ UNCHANGED <<endpoint, role, serverVars, config, session, template,
                   attempt_number, final_response_content, requestVars, storeVars,
                   callVars>>

\* the handler parses the value the gateway returned; process_public_query
\* answers with it, process_query goes on to save_message_and_response; an
\* exception of the parse is answered with status 500
Respond ==
    /\ pc = "returned"
    /\ LET final == ParseResponse(callResult[1].value[1]) IN
       IF final.kind = "AttributeError"
       THEN /\ pc' = "done"
            /\ httpStatus' = 500
            /\ UNCHANGED final_response_content
       ELSE /\ final_response_content' = Some(final)
            /\ IF endpoint = "public"
               THEN /\ pc' = "done"
                    /\ httpStatus' = 200
               ELSE /\ pc' = "save_session"
                    /\ UNCHANGED httpStatus
    /\ UNCHANGED <<endpoint, role, serverVars, config, session, template,
                   gatewayVars, requestVars, storeVars, callVars>>

handlerVars == <<endpoint, role, serverVars, config, session, template,
                 gatewayVars, final_response_content, requestVars, callVars>>

\* save_message_and_response: the session is created, or looked up and
\* touched
SaveSessionStep ==
    /\ pc = "save_session"
    /\ LET s == SaveSession(db, user_id[1], query, session_id) IN
          /\ db' = s.db
          /\ saved' = Some([session_id |-> s.session_id, message_id |-> 0])
    /\ pc' = "save_message"
    /\ UNCHANGED <<handlerVars, httpStatus, response_session_id>>

\* save_message_and_response: the query message is committed; an exception
\* of the commit is answered with status 500
SaveMessageStep ==
    /\ pc = "save_message"
    /\ LET s == SaveMessage(db, user_id[1], saved[1].session_id, query, role) IN
          /\ db' = s.db
          /\ IF s.ok
             THEN /\ saved' = Some([saved[1] EXCEPT !.message_id = s.message_id])
                  /\ pc' = "save_response"
                  /\ UNCHANGED httpStatus
             ELSE /\ pc' = "done"
                  /\ httpStatus' = 500
                  /\ UNCHANGED saved
    /\ UNCHANGED <<handlerVars, response_session_id>>

\* save_message_and_response: the response row and the response-typed
\* message are committed, and the handler answers with the entry's session_id
SaveResponseStep ==
    /\ pc = "save_response"
    /\ LET s == SaveResponse(db, user_id[1], saved[1].session_id,
                             saved[1].message_id,
                             ContentString(final_response_content[1])) IN
          /\ db' = s.db
          /\ pc' = "done"
          /\ IF s.ok
             THEN /\ httpStatus' = 200
                  /\ response_session_id' = Some(saved[1].session_id)
             ELSE /\ httpStatus' = 500
                  /\ UNCHANGED response_session_id
    /\ UNCHANGED <<handlerVars, saved>>

\* requests of every role and model name, the authenticated ones opening a
\* new conversation
Next ==
    \/ \E r \in RoleStrings, m \in ModelNames, uid \in UserLookups :
          ProcessQuery(r, m, uid, <<"hello">>, None)
    \/ \E r \in RoleStrings, m \in ModelNames :
          ProcessPublicQuery(r, m, <<"hello">>, None)
    \/ BeginAttempt
    \/ /\ pc = "inflight"
       /\ \E reply \in ProviderReplies(log[Len(log)].protocol) : EndAttempt(reply)
    \/ Respond
    \/ SaveSessionStep
    \/ SaveMessageStep
    \/ SaveResponseStep

Spec == Init /\ [][Next]_vars

\* the authenticated requests of user 1 with every query text and session_id,
\* for a known and an unknown role under a Gemini and an OpenAI model name
QueryRoles ==
    { <<"f","u","n","c","t","i","o","n","a","l">>, <<"a","d","m","i","n">> }

QueryModelNames ==
    { <<"g","e","m","i","n","i","-","2",".","0","-","f","l","a","s","h","-","l","i","t","e">>,
      <<"g","p","t","-","4">> }

QueryNext ==
    \/ \E r \in QueryRoles, m \in QueryModelNames, uid \in UserLookups,
          q \in Queries, sid \in SessionIds : ProcessQuery(r, m, uid, q, sid)
    \/ BeginAttempt
    \/ /\ pc = "inflight"
       /\ \E reply \in ProviderReplies(log[Len(log)].protocol) : EndAttempt(reply)
    \/ Respond
    \/ SaveSessionStep
    \/ SaveMessageStep
    \/ SaveResponseStep

QuerySpec == Init /\ [][QueryNext]_vars

(***************************************************************************)
(* process_query up to its prompt, on a session of user 1 that holds up to *)
(* MaxStoredTurns saved turns.                                             *)
(***************************************************************************)
MaxStoredTurns == 11

\* the query texts of the stored turns, oldest first
TurnNames ==
    <<"t1", "t2", "t3", "t4", "t5", "t6", "t7", "t8", "t9", "t10", "t11", "t12",
      "t13", "t14">>

\* the store after user 1 saved n turns with save_message_and_response, the
\* first of them opening session 1: turn i was saved at the times 3i - 1
\* (session touched or created), 3i (query message) and 3i + 1 (response)
StoreWithTurns(n) ==
    IF n = 0 THEN EmptyStore
    ELSE [sessions |-> {[id |-> 1, user_id |-> 1, title |-> <<TurnNames[1]>>,
                         created_at |-> 1,
                         updated_at |-> IF n = 1 THEN 1 ELSE 3 * n - 2]},
          messages |->
              { [id |-> 2 * i - 1, user_id |-> 1, session_id |-> 1,
                 message_type |-> "query", content |-> <<TurnNames[i]>>,
                 role |-> <<"functional">>, created_at |-> 3 * i - 1] : i \in 1..n }
              \cup
              { [id |-> 2 * i, user_id |-> 1, session_id |-> 1,
                 message_type |-> "response", content |-> <<"answer">>,
                 role |-> <<"assistant">>, created_at |-> 3 * i] : i \in 1..n },
          responses |->
              { [id |-> i, message_id |-> 2 * i - 1, content |-> <<"answer">>,
                 created_at |-> 3 * i] : i \in 1..n },
          next_session_id |-> 2, next_message_id |-> 2 * n + 1,
          next_response_id |-> n + 1, now |-> 3 * n + 1]

HistoryInit == \E n \in 0..MaxStoredTurns : InitWith(StoreWithTurns(n))

HistoryNext ==
    \E r \in QueryRoles, m \in QueryModelNames, uid \in UserLookups,
       q \in Queries, sid \in {None, Some(1), Some(2)} : ProcessQuery(r, m, uid, q, sid)

HistorySpec == HistoryInit /\ [][HistoryNext]_vars

(***************************************************************************)
(* The service calls several users make on one store, one call at a time.  *)
(***************************************************************************)
MaxCalls == 2

UserIds == {1, 2}

\* the contents process_query hands to save_message_and_response
ResponseContents == { FinalContent("content", <<"a", "b">>, "") }

\* process_query of user u calls save_message_and_response(db, u,
\* message_data, response_data, session_id=sid)
CallSaveMessageAndResponse(u, r, q, sid, content) ==
    /\ pc \in {"idle", "done"}
    /\ ncalls < MaxCalls
    /\ ncalls' = ncalls + 1
    /\ pc' = "save_session"
    /\ endpoint' = "auth"
    /\ role' = r
    /\ user_id' = Some(u)
    /\ query' = q
    /\ session_id' = sid
    /\ final_response_content' = Some(content)
    /\ httpStatus' = 0
    /\ saved' = None
    /\ response_session_id' = None
    /\ db_before' = db
    /\ call' = Some([op |-> "save", user_id |-> u, session_id |-> sid,
                     result |-> FALSE])
    /\ UNCHANGED <<serverVars, config, session, template, gatewayVars,
                   chat_history, prompt, db>>

\* delete_chat_session of user u calls delete_session(db, sid, u)
CallDeleteSession(u, sid) ==
    /\ pc \in {"idle", "done"}
    /\ ncalls < MaxCalls
    /\ ncalls' = ncalls + 1
    /\ LET deleted == DeleteSession(db, sid, u) IN
          /\ db' = deleted.db
          /\ call' = Some([op |-> "delete", user_id |-> u, session_id |-> Some(sid),
                           result |-> deleted.result])
    /\ db_before' = db
    /\ pc' = "done"
    /\ UNCHANGED <<endpoint, role, serverVars, config, session, template,
                   gatewayVars, final_response_content, httpStatus, requestVars,
                   saved, response_session_id>>

\* update_chat_session of user u calls update_session(db, sid, u, title)
CallUpdateSession(u, sid, title) ==
    /\ pc \in {"idle", "done"}
    /\ ncalls < MaxCalls
    /\ ncalls' = ncalls + 1
    /\ LET updated == UpdateSession(db, sid, u, title) IN
          /\ db' = updated.db
          /\ call' = Some([op |-> "update", user_id |-> u, session_id |-> Some(sid),
                           result |-> updated.result])
    /\ db_before' = db
    /\ pc' = "done"
    /\ UNCHANGED <<endpoint, role, serverVars, config, session, template,
                   gatewayVars, final_response_content, httpStatus, requestVars,
                   saved, response_session_id>>

\* the limits get_session_messages is called with
Limits == {None, Some(1), Some(2)}

\* user u calls get_session_messages(db, sid, u, limit)
CallGetSessionMessages(u, sid, limit) ==
    /\ pc \in {"idle", "done"}
    /\ ncalls < MaxCalls
    /\ ncalls' = ncalls + 1
    /\ call' = Some([op |-> "get", user_id |-> u, session_id |-> Some(sid),
                     limit |-> limit,
                     result |-> GetSessionMessages(db, sid, u, limit)])
    /\ db_before' = db
    /\ pc' = "done"
    /\ UNCHANGED <<endpoint, role, serverVars, config, session, template,
                   gatewayVars, final_response_content, httpStatus, requestVars,
                   storeVars>>

\* a commit of save_message_and_response raises (the connection is lost):
\* what was committed before stays, get_db rolls the rest back, and the
\* request is answered with status 500
CommitFails ==
    /\ pc \in {"save_session", "save_message", "save_response"}
    /\ pc' = "done"
    /\ httpStatus' = 500
    /\ UNCHANGED <<handlerVars, storeVars>>

StoreNext ==
    \/ \E u \in UserIds, q \in Queries, sid \in SessionIds,
          content \in ResponseContents :
          CallSaveMessageAndResponse(u, <<"t","e","s","t","e","r">>, q, sid, content)
    \/ \E u \in UserIds, sid \in 1..3 : CallDeleteSession(u, sid)
    \/ \E u \in UserIds, sid \in 1..3 : CallUpdateSession(u, sid, <<"renamed">>)
    \/ \E u \in UserIds, sid \in 1..3, limit \in Limits :
          CallGetSessionMessages(u, sid, limit)
    \/ SaveSessionStep
    \/ SaveMessageStep
    \/ SaveResponseStep
    \/ CommitFails

StoreSpec == Init /\ [][StoreNext]_vars

(***************************************************************************)
(* generate_prompt called with every query, role and history.              *)
(***************************************************************************)
MaxTurns == 2

\* ChatHistoryItem(message, response): a turn with and one without a response
PersistedItems ==
    { [message |-> [content |-> <<"q1">>], response |-> Some([content |-> <<"r1">>])],
      [message |-> [content |-> <<"q2">>], response |-> None] }

\* SimpleHistoryItem(role, content)
SimpleItems ==
    { [role |-> "user", content |-> <<"q1">>],
      [role |-> "assistant", content |-> <<"r1">>],
      [role |-> "User", content |-> <<"q2">>] }

\* the histories a caller passes: None, [], and the lists of either type
Histories ==
    {None, Some(<<>>)}
      \cup { Some(h) : h \in UNION { [1..n -> PersistedItems] : n \in 1..MaxTurns } }
      \cup { Some(h) : h \in UNION { [1..n -> SimpleItems] : n \in 1..MaxTurns } }

\* prompt_engine.generate_prompt(query=q, role=..., history=history)
CallGeneratePrompt(q, role_value, history) ==
    /\ pc = "idle"
    /\ pc' = "done"
    /\ query' = q
    /\ chat_history' = history
    /\ template' = TemplatesGet(role_value)
    /\ prompt' = IF TemplatesGet(role_value) = None
                 THEN None    \* ValueError("No template found for role: ...")
                 ELSE Some(GeneratePrompt(q, role_value, history))
    /\ UNCHANGED <<endpoint, role, serverVars, config, session, gatewayVars,
                   httpStatus, final_response_content, user_id, session_id,
                   storeVars, callVars>>

\* the values of the members of the role enumeration
UserRoleValues == { m.value : m \in UserRole }

PromptNext ==
    \E q \in Queries, role_value \in UserRoleValues, history \in Histories :
        CallGeneratePrompt(q, role_value, history)

PromptSpec == Init /\ [][PromptNext]_vars

(***************************************************************************)
(* The gateway called on its own, with a config of any attempt budget.     *)
(***************************************************************************)
\* the values LLMConfig.max_retries is configured with: under, at and over
\* its default
MaxRetriesValues == {1, 3, 5}

\* assistant = EnhancedLLMWrapper(LLMConfig(model_name=..., max_retries=...)),
\* then `await assistant._make_api_call(prompt)` begins
CallGateway(model_name, max_retries) ==
    /\ pc = "idle"
    /\ pc' = "prompted"
    /\ config' = Some([LLMConfig(model_name) EXCEPT !.max_retries = max_retries])
    /\ session' = "open"
    /\ prompt' = Some(<<"hello">>)
    /\ UNCHANGED <<endpoint, role, serverVars, template, gatewayVars, httpStatus,
                   final_response_content, user_id, query, session_id, chat_history,
                   storeVars, callVars>>

GatewayNext ==
    \/ \E m \in QueryModelNames, max_retries \in MaxRetriesValues :
          CallGateway(m, max_retries)
    \/ BeginAttempt
    \/ /\ pc = "inflight"
       /\ \E reply \in ProviderReplies(log[Len(log)].protocol) : EndAttempt(reply)

GatewaySpec == Init /\ [][GatewayNext]_vars

(***************************************************************************)
(* Query requests handled concurrently: each is a task that is suspended   *)
(* only while its session.post is awaited, so the steps of the requests    *)
(* interleave at the attempts.  What is followed is which objects each     *)
(* request constructs and uses.                                            *)
(***************************************************************************)
\* EnhancedLLMWrapper(config=...) called by request r: __init__ constructs a
\* new aiohttp.ClientSession and keeps it in self.session
EnhancedLLMWrapperSharingSession(h, r) ==
    LET session_obj == IF h = <<>> THEN 1 ELSE h[Len(h)].session
    IN [heap |-> IF h = <<>>
                 THEN << [kind |-> "ClientSession", created_by |-> r, session |-> 0],
                         [kind |-> "EnhancedLLMWrapper", created_by |-> r,
                          session |-> session_obj] >>
                 ELSE Append(h, [kind |-> "EnhancedLLMWrapper", created_by |-> r,
                                 session |-> session_obj]),
        self |-> IF h = <<>> THEN 2 ELSE Len(h) + 1]
EnhancedLLMWrapperInit(h, r) ==
    LET session_obj == Len(h) + 1
    IN [heap |-> h \o << [kind |-> "ClientSession", created_by |-> r, session |-> 0],
                         [kind |-> "EnhancedLLMWrapper", created_by |-> r,
                          session |-> session_obj] >>,
        self |-> Len(h) + 2]

othersVars == <<pc, endpoint, role, guest_mode_enabled, prompt_engine, config, session,
                template, gatewayVars, httpStatus, final_response_content, requestVars,
                storeVars, callVars>>

\* request r up to its gateway call: assistant = EnhancedLLMWrapper(...), then
\* prompt_engine.generate_prompt(...), which reads the template table
RequestCreatesAssistant(r) ==
    /\ request_pc[r] = "idle"
    /\ LET new == EnhancedLLMWrapperInit(heap, r) IN
          /\ heap' = new.heap
          /\ assistant' = [assistant EXCEPT ![r] = Some(new.self)]
    /\ request_pc' = [request_pc EXCEPT ![r] = "prompted"]
    /\ UNCHANGED <<othersVars, request_attempt, posts>>

\* an attempt of request r's _make_api_call: self.session.post(...) on the
\* session of r's own assistant; the task is suspended until the reply
RequestBeginsAttempt(r) ==
    /\ request_pc[r] \in {"prompted", "backoff"}
    /\ request_pc' = [request_pc EXCEPT ![r] = "inflight"]
    /\ request_attempt' = [request_attempt EXCEPT ![r] = @ + 1]
    /\ posts' = posts \cup {[by |-> r, session |-> heap[assistant[r][1]].session]}
    /\ UNCHANGED <<othersVars, heap, assistant>>

\* the attempt in flight of request r ends, and its driver delivers, stops
\* or sleeps
RequestEndsAttempt(r, ok) ==
    /\ request_pc[r] = "inflight"
    /\ request_pc' = [request_pc EXCEPT ![r] =
            IF AfterAttempt([ok |-> ok], request_attempt[r]) = "sleep"
            THEN "backoff" ELSE "done"]
    /\ UNCHANGED <<othersVars, heap, assistant, request_attempt, posts>>

ConcurrentNext ==
    \E r \in Requests :
        \/ RequestCreatesAssistant(r)
        \/ RequestBeginsAttempt(r)
        \/ \E ok \in BOOLEAN : RequestEndsAttempt(r, ok)

ConcurrentSpec == Init /\ [][ConcurrentNext]_vars

(***************************************************************************)
(* Properties of the gateway call and of the role lookup.                  *)
(***************************************************************************)
CallRaised == callResult # None /\ ~callResult[1].ok
CallReturned == callResult # None /\ callResult[1].ok
AllAttemptsFailed == \A i \in 1..Len(log) : ~log[i].ok
\* the latest attempt has ended (none is in flight) and its POST produced `class`
LatestReplyIs(class) ==
    /\ pc # "inflight"
    /\ Len(log) > 0
    /\ log[Len(log)].reply = class
\* the handler is past `await assistant._make_api_call(prompt)`
AfterCall == pc \in {"returned", "save_session", "save_message", "save_response", "done"}
\* after a failed attempt the driver goes on to the next attempt
RetryFollows == pc = "backoff" /\ callResult = None
\* after a failed attempt the driver raises that attempt's exception
FailurePropagates ==
    /\ pc = "done"
    /\ CallRaised
    /\ callResult[1] = outcome[1]

\* C1: when every attempt of one _make_api_call fails, exactly 3 attempts are
\* made, never a 4th, and the call ends by raising; the call returns a value
\* only if some attempt succeeded.
C1_ThreeAttemptsThenRaise ==
    /\ attempt_number <= 3
    /\ Len(log) = attempt_number
    /\ CallRaised => (attempt_number = 3 /\ AllAttemptsFailed)
    /\ (AllAttemptsFailed /\ attempt_number < 3) => callResult = None
    /\ (AllAttemptsFailed /\ attempt_number = 3 /\ pc # "inflight")
          => (CallRaised /\ callResult[1].error # None /\ callResult[1].value = None)
    /\ CallReturned => \E i \in 1..Len(log) : log[i].ok

C1_Witness ==
    /\ CallRaised
    /\ attempt_number = 3
    /\ pc = "done"

\* C2: if attempt k (1 <= k <= 3) is the first attempt that succeeds, the call
\* returns that attempt's response, raises no error, and makes exactly k
\* attempts.
C2_FirstSuccessReturns ==
    \A k \in 1..3 :
        (Len(log) >= k /\ log[k].ok /\ \A i \in 1..(k - 1) : ~log[i].ok)
           => /\ CallReturned
              /\ callResult[1].error = None
              /\ callResult[1].value = outcome[1].value
              /\ outcome[1].ok
              /\ attempt_number = k
              /\ Len(log) = k
              /\ AfterCall

C2_Witness ==
    /\ CallReturned
    /\ attempt_number = 2
    /\ ~log[1].ok
    /\ log[2].ok

\* C3 (as claimed): when retries are exhausted on a persistent transport
\* failure, the error that reaches the caller is the very error the final
\* attempt's transport raised, unmodified and not wrapped.
C3_TransportErrorUnchanged ==
    (CallRaised /\ \A i \in 1..Len(log) : log[i].reply = "client_error")
        => callResult[1].error = Some(TransportRaise(lastReply[1]))

\* C3 (amended): when retries are exhausted on a persistent transport failure,
\* the error that reaches the caller is the exception the final attempt of
\* _make_api_call raised, not wrapped by the retry driver; that exception is a
\* new Exception("Network error: <text of the transport's error>"), not the
\* transport's aiohttp.ClientError itself.
C3_NetworkErrorReraised ==
    (CallRaised /\ \A i \in 1..Len(log) : log[i].reply = "client_error")
        => /\ attempt_number = 3
           /\ callResult[1] = outcome[1]
           /\ callResult[1].error =
                  Some(Exc("Exception", "Network error: ", lastReply[1].text))
           /\ callResult[1].error # Some(TransportRaise(lastReply[1]))

C3_Witness ==
    /\ CallRaised
    /\ Len(log) = 3
    /\ \A i \in 1..3 : log[i].reply = "client_error"
    /\ httpStatus = 500

\* a Gemini attempt got status 200 and a body whose candidates are missing or empty
GeminiFormatFailure ==
    /\ LatestReplyIs("200")
    /\ log[Len(log)].protocol = "gemini"
    /\ \/ ~lastReply[1].body[1].hasCandidates
       \/ Len(lastReply[1].body[1].candidates) = 0

UnexpectedFormat ==
    Raise(Exc("Exception", "Gemini API returned an unexpected response format", ""))

\* C4 (as claimed): when a Gemini attempt receives status 200 with candidates
\* missing or empty, the call fails immediately with the unexpected-format
\* error: exactly one attempt is made and no retry follows.
C4_UnexpectedFormatNotRetried ==
    GeminiFormatFailure
        => /\ attempt_number = 1
           /\ callResult = Some(UnexpectedFormat)

\* C4 (amended): when a Gemini attempt receives status 200 with candidates
\* missing or empty, that attempt fails with the unexpected-format error and
\* is retried like any other failed attempt: the next attempt follows if
\* fewer than 3 have been made, and after the 3rd the unexpected-format error
\* is raised to the caller.
C4_UnexpectedFormatRetried ==
    GeminiFormatFailure
        => /\ outcome = Some(UnexpectedFormat)
           /\ attempt_number < 3 => RetryFollows
           /\ attempt_number = 3 => (FailurePropagates /\ httpStatus = 500)

C4_Witness ==
    /\ GeminiFormatFailure
    /\ attempt_number = 3
    /\ \A i \in 1..3 : log[i].reply = "200"
    /\ callResult = Some(UnexpectedFormat)

\* C5: an attempt that ends with a non-200 status or with a timeout yields no
\* response and is treated by the retry driver exactly like a transport error:
\* the next attempt is made if attempts remain, otherwise the failure
\* propagates; the budget of 3 attempts is the same for all three causes.
C5_StatusAndTimeoutRetried ==
    \A class \in {"non200", "timeout", "client_error"} :
        LatestReplyIs(class)
            => /\ ~outcome[1].ok
               /\ outcome[1].value = None
               /\ attempt_number < 3 => RetryFollows
               /\ attempt_number = 3 => FailurePropagates

C5_Witness ==
    /\ Len(log) = 3
    /\ log[1].reply = "timeout"
    /\ log[2].reply = "non200"
    /\ log[3].reply = "timeout"
    /\ FailurePropagates

\* the characters g,e,m,i,n,i occur in s, in this case, as a contiguous run
HasGeminiRun(s) ==
    \E i \in 1..Len(s) :
        /\ i + 5 <= Len(s)
        /\ s[i] = "g" /\ s[i + 1] = "e" /\ s[i + 2] = "m"
        /\ s[i + 3] = "i" /\ s[i + 4] = "n" /\ s[i + 5] = "i"

\* C6: every attempt of a call uses the Gemini protocol if and only if
\* config.model_name contains "gemini" (case-sensitive), the OpenAI protocol
\* otherwise, and all attempts of one call use the same protocol.
C6_DispatchByModelName ==
    \A i \in 1..Len(log) :
        /\ log[i].protocol \in {"gemini", "openai"}
        /\ log[i].protocol = "gemini" <=> HasGeminiRun(config[1].model_name)
        /\ log[i].protocol = log[1].protocol

C6_Witness ==
    /\ Len(log) = 3
    /\ log[3].protocol = "gemini"
    /\ ~StartsWith(config[1].model_name, S_gemini)

\* the number of characters the texts of parts 1..n hold together
RECURSIVE TextLength(_, _)
TextLength(parts, n) ==
    IF n = 0 THEN 0
    ELSE TextLength(parts, n - 1)
           + (IF parts[n].hasText THEN Len(parts[n].text) ELSE 0)

\* a Gemini attempt got status 200 and a non-empty candidates list whose first
\* candidate carries content.parts
GeminiWellFormed ==
    /\ LatestReplyIs("200")
    /\ log[Len(log)].protocol = "gemini"
    /\ lastReply[1].body[1].hasCandidates
    /\ Len(lastReply[1].body[1].candidates) > 0
    /\ lastReply[1].body[1].candidates[1].hasContent

Canonical(v) ==
    /\ v.choicesKind = "list"
    /\ Len(v.choices) > 0
    /\ v.choices[1].messageKind = "dict"
    /\ v.choices[1].contentKind = "str"

\* C8 (as claimed): every value a gateway call returns, under either protocol,
\* has the canonical shape.
C8_ReturnedValueCanonical ==
    CallReturned => Canonical(callResult[1].value[1])

\* C8 (amended): every value a gateway call returns under the Gemini protocol
\* has the canonical shape; under the OpenAI protocol the value returned is
\* the 200 body as received, so it is canonical exactly when that body is.
C8_GeminiCanonicalOpenAIAsIs ==
    CallReturned
        => /\ log[Len(log)].protocol = "gemini"
                => Canonical(callResult[1].value[1])
           /\ log[Len(log)].protocol = "openai"
                => callResult[1].value = lastReply[1].body

C8_Witness ==
    /\ CallReturned
    /\ log[Len(log)].protocol = "openai"
    /\ ~Canonical(callResult[1].value[1])
    /\ httpStatus = 200

\* C9 (as claimed): the HTTP client session a gateway instance opened is
\* closed on every exit path of the request that created the instance.
C9_SessionReleased ==
    (pc = "done" /\ session # "none") => session = "closed"

\* the upper-cased role string is the name of none of the seven roles
UnknownRole(r) == \A m \in UserRole : m.name # Upper(r)

RequestFailed ==
    /\ pc = "done"
    /\ httpStatus \in {403, 404, 500}
    /\ template = None

C11_UnknownRoleIsClientError ==
    (pc = "done" /\ endpoint # "none" /\ UnknownRole(role))
        => /\ httpStatus \in 400..499
           /\ attempt_number = 0
           /\ db = db_before

(***************************************************************************)
(* Properties of the prompt.                                               *)
(***************************************************************************)
HasToken(text, t) == \E i \in 1..Len(text) : text[i] = t
\* the place of the first token t of a text
IndexOf(text, t) ==
    CHOOSE i \in 1..Len(text) : text[i] = t /\ \A j \in 1..(i - 1) : text[j] # t
\* what the prompt holds between the system prompt's line and the line of
\* the CURRENT QUERY block
HistoryPart(text) == SubSeq(text, 3, IndexOf(text, "CURRENT QUERY:\nUser: ") - 2)
HistoryGiven == chat_history # None /\ chat_history[1] # <<>>

\* C12: when the history passed to generate_prompt is absent or an empty
\* list, the history part of the prompt is the empty string: neither the
\* "CONVERSATION HISTORY:" header nor the separator block is emitted.
C12_EmptyHistoryEmitsNothing ==
    (prompt # None /\ ~HistoryGiven)
        => /\ HistoryPart(prompt[1]) = <<>>
           /\ ~HasToken(prompt[1], "CONVERSATION HISTORY:\n")
           /\ ~HasToken(prompt[1], "\n---\n\n")

C12_Witness ==
    /\ prompt # None
    /\ chat_history = Some(<<>>)
    /\ HistoryPart(prompt[1]) = <<>>

\* the transcript the claims describe: the header, one text per turn in the
\* order of the list, the separator block
RECURSIVE TurnsUpTo(_, _, _)
TurnsUpTo(Line(_), items, n) ==
    IF n = 0 THEN <<>> ELSE TurnsUpTo(Line, items, n - 1) \o Line(items[n])
Transcript(Line(_), items) ==
    <<"CONVERSATION HISTORY:\n">> \o TurnsUpTo(Line, items, Len(items))
        \o <<"\n---\n\n">>

UserAndAssistantLines(item) ==
    IF item.response = None
    THEN <<"User: ">> \o item.message.content \o <<"\n">>
    ELSE <<"User: ">> \o item.message.content \o <<"\n", "Assistant: ">>
           \o item.response[1].content \o <<"\n">>

\* C13: for a non-empty persisted-pair history the transcript is the header,
\* then for each turn in the given order one "User: <query>" line followed
\* by one "Assistant: <response>" line exactly when the turn has a response,
\* then the separator block; no turn is dropped, duplicated or reordered.
C13_PersistedTranscript ==
    (prompt # None /\ HistoryGiven /\ IsChatHistoryItem(chat_history[1][1]))
        => HistoryPart(prompt[1]) = Transcript(UserAndAssistantLines, chat_history[1])

C13_Witness ==
    /\ prompt # None
    /\ HistoryGiven
    /\ Len(chat_history[1]) = 2
    /\ IsChatHistoryItem(chat_history[1][1])
    /\ chat_history[1][1].response = None
    /\ chat_history[1][2].response # None

SpeakerLine(item) ==
    IF item.role = "user"
    THEN <<"User", ": ">> \o item.content \o <<"\n">>
    ELSE <<"Assistant", ": ">> \o item.content \o <<"\n">>

\* C14: for a non-empty simple-pair history the transcript has exactly one
\* line per turn in the given order, labelled "User" when the turn's speaker
\* is exactly "user" and "Assistant" for every other speaker value, between
\* the header and the separator block.
C14_SimpleTranscript ==
    (prompt # None /\ HistoryGiven /\ IsSimpleHistoryItem(chat_history[1][1]))
        => HistoryPart(prompt[1]) = Transcript(SpeakerLine, chat_history[1])

C14_Witness ==
    /\ prompt # None
    /\ HistoryGiven
    /\ Len(chat_history[1]) = 2
    /\ IsSimpleHistoryItem(chat_history[1][1])
    /\ chat_history[1][1].role = "User"
    /\ chat_history[1][2].role = "user"

\* the tokens of a text from place i on
From(text, i) == SubSeq(text, i, Len(text))
\* the text begins with the tokens of `head`
BeginsWith(text, head) ==
    Len(text) >= Len(head) /\ SubSeq(text, 1, Len(head)) = head
\* the section names, each but the last followed by ", "
SectionList(sections) ==
    [i \in 1..(2 * Len(sections) - 1) |->
        IF i % 2 = 1 THEN sections[(i + 1) \div 2] ELSE ", "]

\* C15: every prompt generate_prompt produces for a valid role consists of
\* these parts in this fixed order: the role's system prompt, the history
\* transcript (possibly empty), the CURRENT QUERY block holding the query,
\* the RESPONSE STRUCTURE header followed by the role's sections joined with
\* ", ", the formatting block, the REMEMBER block; the current query comes
\* after every history turn.
C15_PromptPartsInOrder ==
    prompt # None =>
        LET p == prompt[1]
            role_value == template[1]
            c == IndexOf(p, "CURRENT QUERY:\nUser: ")
            s == c + Len(query) + 2
            f == s + 4 + 2 * Len(templates[role_value].sections)
            r == IndexOf(p, "\nREMEMBER:")
        IN /\ BeginsWith(p, <<templates[role_value].system_prompt, "\n">>)
           /\ HasToken(p, "CURRENT QUERY:\nUser: ")
           /\ HistoryPart(p) = HistoryStr(chat_history)
           /\ p[c - 1] = "\n"
           /\ BeginsWith(From(p, c), <<"CURRENT QUERY:\nUser: ">> \o query \o <<"\n">>)
           /\ BeginsWith(From(p, s),
                  <<"\n", "RESPONSE STRUCTURE:", "\n",
                    "Please structure your response using the following sections: ">>
                    \o SectionList(templates[role_value].sections)
                    \o <<"\n", "\nFORMATTING:", "\n">>)
           /\ HasToken(p, "\nREMEMBER:")
           /\ f < r
           /\ \A i \in (f + 1)..(r - 1) : i % 2 = (r - 1) % 2 => p[i] = "\n"
           /\ BeginsWith(From(p, r),
                  <<"\nREMEMBER:", "\n", "1. Use appropriate terminology for a ",
                    role_value, " user.">>)
           /\ \A i \in 1..Len(p) :
                 p[i] \in {"User: ", "Assistant: ", "User", "Assistant",
                           "CONVERSATION HISTORY:\n", "\n---\n\n"} => i < c

C15_Witness ==
    /\ prompt # None
    /\ HistoryGiven
    /\ Len(chat_history[1]) = 2
    /\ query # <<>>
    /\ template = Some("tester")

(***************************************************************************)
(* Properties of what a request leaves in the store.                       *)
(***************************************************************************)
\* the rows the current service call added to a table
Added(table) == db[table] \ db_before[table]
AddedMessages(message_type) ==
    { m \in Added("messages") : m.message_type = message_type }
ResponsesOf(m) == { r \in db.responses : r.message_id = m.id }
\* an authenticated query answered with success
QueryCompleted == endpoint = "auth" /\ pc = "done" /\ httpStatus = 200

\* C16: each authenticated query that completes successfully adds exactly
\* one query-typed message row, exactly one response row whose message_id is
\* that query row, and exactly one response-typed message row with the same
\* content, all in one session; the session_id returned to the caller is
\* that session's id, and every completed query message has exactly one
\* response row.
C16_OneTurnPerCompletedQuery ==
    /\ QueryCompleted =>
          /\ Cardinality(AddedMessages("query")) = 1
          /\ Cardinality(AddedMessages("response")) = 1
          /\ Cardinality(Added("messages")) = 2
          /\ Cardinality(Added("responses")) = 1
          /\ db_before.messages \subseteq db.messages
          /\ db_before.responses \subseteq db.responses
          /\ \A q \in AddedMessages("query"), m \in AddedMessages("response"),
                r \in Added("responses") :
                /\ q.content = query
                /\ r.message_id = q.id
                /\ r.content = ContentString(final_response_content[1])
                /\ m.content = r.content
                /\ m.session_id = q.session_id
                /\ \E s \in db.sessions : s.id = q.session_id
                /\ response_session_id = Some(q.session_id)
    /\ (pc = "idle" \/ QueryCompleted) =>
          \A q \in db.messages :
              q.message_type = "query" => Cardinality(ResponsesOf(q)) = 1

C16_Witness ==
    /\ QueryCompleted
    /\ session_id = Some(1)
    /\ response_session_id = Some(1)
    /\ Cardinality(db.messages) = 6
    /\ final_response_content[1].kind = "default"

\* C17 (as claimed): when the gateway call of an authenticated query fails
\* (retries exhausted or unexpected format), the request is not aborted: the
\* caller receives a textual fallback response, and the query together with
\* that fallback is persisted as a query message, a response row and a
\* response-typed message.
C17_GatewayFailureFallsBack ==
    (endpoint = "auth" /\ pc = "done" /\ CallRaised)
        => /\ httpStatus = 200
           /\ final_response_content # None
           /\ Cardinality(AddedMessages("query")) = 1
           /\ Cardinality(Added("responses")) = 1
           /\ Cardinality(AddedMessages("response")) = 1

\* the value lacks choices[0].message.content at one of the levels: choices
\* missing, not a list or empty, message not a dict, content not a string
ExtractionFails(v) == ~Canonical(v)

\* C18 (as claimed): for every value returned by the gateway in which
\* choices is missing, not a list or empty, or the first choice's message is
\* not a dict, or its content is not a string, the query handlers produce a
\* fallback error-content string as the response content and do not raise.
C18_FallbackContentNoRaise ==
    (CallReturned /\ ExtractionFails(callResult[1].value[1]) /\ pc # "returned")
        => /\ final_response_content # None
           /\ final_response_content[1].kind \in {"default", "api_error"}
           /\ ContentString(final_response_content[1]) # <<>>
           /\ httpStatus # 500
           /\ pc = "done" => httpStatus = 200

\* the latest service call was a delete_session that returned True
DeleteSucceeded == call # None /\ call[1].op = "delete" /\ call[1].result
\* the message rows of a session before the call
MessagesBefore(sid) == { m \in db_before.messages : m.session_id = sid }
ResponsesBefore(sid) ==
    { r \in db_before.responses : \E m \in MessagesBefore(sid) : r.message_id = m.id }

\* C19: after delete_session succeeds for a session, no message row of that
\* session and no response row of any of its messages remains in the store;
\* rows of other sessions are unchanged.
C19_DeleteCascades ==
    DeleteSucceeded =>
        LET sid == call[1].session_id[1] IN
        /\ \A m \in db.messages : m.session_id # sid
        /\ \A r \in db.responses : r \notin ResponsesBefore(sid)
        /\ \A r \in db.responses : \E m \in db.messages : r.message_id = m.id
        /\ db.sessions = { s \in db_before.sessions : s.id # sid }
        /\ db.messages = db_before.messages \ MessagesBefore(sid)
        /\ db.responses = db_before.responses \ ResponsesBefore(sid)

C19_Witness ==
    /\ DeleteSucceeded
    /\ Cardinality(MessagesBefore(call[1].session_id[1])) = 4
    /\ Cardinality(ResponsesBefore(call[1].session_id[1])) = 2
    /\ db.messages # {}
    /\ db.responses # {}

\* the latest service call was a save_message_and_response that returned
SaveReturned == call # None /\ call[1].op = "save" /\ pc = "done" /\ httpStatus = 200
\* the sessions whose id no session had before the call
NewSessions == { s \in db.sessions : \A o \in db_before.sessions : o.id # s.id }
\* the title holds the first 5 words of the content and none of the later
FromFirstWords(title, content) ==
    LET words == Split(content) IN
    IF Len(words) <= 5
    THEN Split(title) = words
    ELSE /\ BeginsWith(title, Join(SubSeq(words, 1, 5), <<" ">>))
         /\ \A i \in 6..Len(words) : \A k \in 1..Len(words[i]) :
               ~HasToken(title, words[i][k])

\* C20 (as claimed): save_message_and_response creates a session exactly
\* when no session_id is supplied: then exactly one new session owned by the
\* user is created, its title is built from the first 5 whitespace-separated
\* words of that query and from no later word, and the rows are written into
\* it; when a session_id is supplied no session is created and that
\* session's updated_at is bumped.
C20_SessionCreatedIffNoneSupplied ==
    SaveReturned =>
        IF session_id = None
        THEN /\ Cardinality(NewSessions) = 1
             /\ \A s \in NewSessions :
                   /\ s.user_id = user_id[1]
                   /\ FromFirstWords(s.title, query)
                   /\ Added("messages") # {}
                   /\ \A m \in Added("messages") : m.session_id = s.id
        ELSE /\ NewSessions = {}
             /\ \E s \in db.sessions, o \in db_before.sessions :
                   /\ s.id = session_id[1]
                   /\ o.id = session_id[1]
                   /\ s.updated_at > o.updated_at

(***************************************************************************)
(* Properties of the reads of the store and of ownership.                  *)
(***************************************************************************)
\* the latest service call was a get_session_messages
GetReturned == call # None /\ call[1].op = "get"
\* the caller of the latest service call owns the session it named
CallerOwnsSession ==
    GetSessionById(db_before, call[1].session_id[1], call[1].user_id) # None
QueryMessagesOf(sid) ==
    { m \in db.messages : m.session_id = sid /\ m.message_type = "query" }

\* C21: get_session_messages with limit N on a session owned by the user
\* returns at most N items, each a query-typed message paired with its
\* response (or none), ordered ascending by creation time; response-typed
\* mirror messages never appear as items.
C21_HistoryItemsLimitedOrderedPaired ==
    (GetReturned /\ CallerOwnsSession) =>
        LET items == call[1].result
            sid == call[1].session_id[1]
        IN /\ call[1].limit # None => Len(items) <= call[1].limit[1]
           /\ \A i \in 1..Len(items) :
                 /\ items[i].message \in QueryMessagesOf(sid)
                 /\ items[i].message.message_type # "response"
                 /\ IF ResponsesOf(items[i].message) = {}
                    THEN items[i].response = None
                    ELSE /\ items[i].response # None
                         /\ items[i].response[1] \in ResponsesOf(items[i].message)
           /\ \A i, j \in 1..Len(items) :
                 i < j => items[i].message.created_at < items[j].message.created_at

C21_Witness ==
    /\ GetReturned
    /\ CallerOwnsSession
    /\ call[1].limit = Some(1)
    /\ Len(call[1].result) = 1
    /\ Cardinality(QueryMessagesOf(call[1].session_id[1])) = 2
    /\ call[1].result[1].response # None

\* the query messages of a session, oldest first
Turns(sid) == OrderByCreatedAt(QueryMessagesOf(sid))
\* process_query fetched the history of a session of the caller that holds
\* more turns than the limit, and built the prompt
LongHistoryFetched ==
    /\ endpoint = "auth"
    /\ pc = "prompted"
    /\ session_id # None
    /\ GetSessionById(db, session_id[1], user_id[1]) # None
    /\ Len(Turns(session_id[1])) > HistoryLimit

\* C22 (as claimed): when a session already holds more than N stored turns
\* (N = 10 in process_query), the history folded into the prompt of the next
\* query of that session is the last (most recent) N turns, so the turn
\* stored immediately before the current query is always part of the
\* context.
C22_PromptHoldsLatestTurns ==
    LongHistoryFetched =>
        LET turns == Turns(session_id[1])
            n == Len(turns)
        IN /\ Len(chat_history[1]) = HistoryLimit
           /\ \A i \in 1..HistoryLimit :
                 chat_history[1][i].message = turns[n - HistoryLimit + i]
           /\ \A k \in 1..Len(turns[n].content) :
                 HasToken(prompt[1], turns[n].content[k])


(***************************************************************************)
(* Properties of the template table.                                       *)
(***************************************************************************)
\* generate_prompt was called and has returned or raised
GeneratePromptCalled == pc = "done" /\ endpoint = "none" /\ call = None

\* C23: each of the seven roles has exactly one template, with a non-empty
\* system prompt and a non-empty section list; the table of the prompt
\* engine is the one its constructor built, whatever has run since; and
\* generate_prompt called with a member of the enumeration selects that
\* member's template and returns a prompt, never the no-template error.
C23_EveryRoleHasItsTemplate ==
    /\ Cardinality(UserRole) = 7
    /\ Cardinality(UserRoleValues) = 7
    /\ prompt_engine = PromptEngine
    /\ DOMAIN prompt_engine.templates = UserRoleValues
    /\ \A r \in UserRoleValues :
          /\ TemplatesGet(r) = Some(r)
          /\ prompt_engine.templates[r].system_prompt # ""
          /\ Len(prompt_engine.templates[r].sections) > 0
    /\ GeneratePromptCalled => template \in { Some(r) : r \in UserRoleValues } /\ prompt # None

C23_Witness ==
    /\ GeneratePromptCalled
    /\ template = Some("tester")
    /\ prompt # None
    /\ HasToken(prompt[1], prompt_engine.templates["tester"].system_prompt)


(***************************************************************************)
(* Properties of concurrent requests.                                      *)
(***************************************************************************)
\* the objects request r holds or has used: its gateway, the gateway's
\* session, and every session it posted on
ObjectsUsedBy(r) ==
    (IF assistant[r] = None THEN {}
     ELSE {assistant[r][1], heap[assistant[r][1]].session})
    \cup { p.session : p \in {x \in posts : x.by = r} }

AttemptsInFlight == { k \in 1..Len(log) : log[k].reply = "pending" }

\* C25: within one gateway call at most one attempt is in flight, and it is
\* the latest one; every attempt before the latest has ended, in failure;
\* and when attempt k + 1 is in flight the driver has slept k times, once
\* after each earlier attempt.
C25_AttemptsStrictlySequential ==
    /\ Len(log) = attempt_number
    /\ Cardinality(AttemptsInFlight) <= 1
    /\ AttemptsInFlight = IF pc = "inflight" THEN {attempt_number} ELSE {}
    /\ \A k \in 1..(Len(log) - 1) : log[k].reply # "pending" /\ ~log[k].ok
    /\ pc = "inflight" => Len(slept) = attempt_number - 1
    /\ pc = "backoff" => Len(slept) = attempt_number /\ ~log[attempt_number].ok

C25_Witness ==
    /\ pc = "inflight"
    /\ attempt_number = 3
    /\ Len(slept) = 2
    /\ AttemptsInFlight = {3}

\* C27: every wait the driver sleeps is at least 4 and at most 10 time
\* units, the wait before attempt 3 is not shorter than the wait before
\* attempt 2, and no wait follows the final attempt: a call that has ended
\* slept one time fewer than it made attempts, and never more than twice.
C27_WaitsClampedAndNonDecreasing ==
    /\ \A i \in 1..Len(slept) : slept[i] >= 4 /\ slept[i] <= 10
    /\ \A i, j \in 1..Len(slept) : i < j => slept[i] <= slept[j]
    /\ Len(slept) <= 2
    /\ callResult # None => Len(slept) = attempt_number - 1

C27_Witness ==
    /\ callResult # None
    /\ ~callResult[1].ok
    /\ attempt_number = 3
    /\ slept = <<4, 4>>


\* every attempt of the call ended in a failure of the transport
PersistentTransportFailure ==
    /\ callResult # None
    /\ ~callResult[1].ok
    /\ \A k \in 1..Len(log) : log[k].reply \in {"client_error", "timeout"}

\* C26 (as claimed): on persistent transport failure the gateway call makes
\* as many attempts as the max_retries of its config, whatever that value
\* is.
C26_AttemptsEqualConfiguredBudget ==
    PersistentTransportFailure => attempt_number = config[1].max_retries


\* C28 (as claimed): rows are written only into a session that exists and
\* that the writing user owns, so at all times every message row's session
\* exists and has the user_id of the message.
C28_MessagesOnlyInOwnSessions ==
    \A m \in db.messages :
        \E s \in db.sessions : s.id = m.session_id /\ s.user_id = m.user_id

\* no service call is under way
NoCallUnderWay == pc \in {"idle", "done"}

\* C29 (as claimed): however a save_message_and_response ended, with a
\* failure between its two commits included, the store holds all the rows
\* of the turn or none of them: once the call is over no query-typed message
\* is without a response row.
C29_TurnSavedWhollyOrNotAtAll ==
    NoCallUnderWay =>
        \A q \in db.messages :
            q.message_type = "query" =>
                \E r \in db.responses : r.message_id = q.id

\* the latest service call was an update_session, a delete_session or a
\* get_session_messages, and named a session that does not exist or that
\* the caller does not own
CallOnSessionNotOwned ==
    /\ call # None
    /\ call[1].op \in {"update", "delete", "get"}
    /\ ~\E s \in db_before.sessions :
           s.id = call[1].session_id[1] /\ s.user_id = call[1].user_id

\* C30: update_session, delete_session and get_session_messages called for
\* a session the caller does not own, or that does not exist, leave every
\* session, message and response row as it was and return None, False and
\* the empty list; and every item get_session_messages returns is a message
\* of a session the caller owns, paired with a response of that message.
C30_NotOwnedSessionUntouchedAndHidden ==
    /\ CallOnSessionNotOwned =>
          /\ db.sessions = db_before.sessions
          /\ db.messages = db_before.messages
          /\ db.responses = db_before.responses
          /\ IF call[1].op = "delete" THEN call[1].result = FALSE
             ELSE IF call[1].op = "update" THEN call[1].result = None
             ELSE call[1].result = <<>>
    /\ GetReturned =>
          \A i \in 1..Len(call[1].result) :
              LET item == call[1].result[i] IN
              /\ item.message.session_id = call[1].session_id[1]
              /\ \E s \in db_before.sessions :
                    s.id = item.message.session_id /\ s.user_id = call[1].user_id
              /\ item.response # None => item.response[1].message_id = item.message.id

\* user 2 asked for, renamed or deleted the session of user 1 that holds a
\* turn
C30_Witness ==
    /\ CallOnSessionNotOwned
    /\ call[1].user_id = 2
    /\ \E s \in db.sessions : s.id = call[1].session_id[1] /\ s.user_id = 1
    /\ \E m \in db.messages : m.session_id = call[1].session_id[1]

====
